---- MODULE Spec2Model ----
(***************************************************************************)
(* Model of the two validation utilities of the repository:                *)
(*   src/validation/validate_configs.py        (ConfigValidator)           *)
(*   src/validation/check_hardcoded_values.py  (HardcodedValuesChecker)    *)
(* Python strings are TLA+ strings, handled character by character with    *)
(* Len, SubSeq and \o.  YAML values are records [t |-> type, s |-> text].  *)
(***************************************************************************)
EXTENDS Integers, Sequences, FiniteSets, TLC

VARIABLES
    \* ---- ConfigValidator ------------------------------------------------
    fileState,      \* what open()/yaml.safe_load meet at config_path
    document,       \* the YAML document the file holds (when it parses)
    config,         \* self.config
    errors,         \* self.errors
    warnings,       \* self.warnings
    pc,             \* position of validate()
    result,         \* value returned by validate(): "none" until it returns
    passesRun,      \* history: the passes validate() has entered, in order
    \* ---- HardcodedValuesChecker -----------------------------------------
    patternsFile,   \* what open() meets at patterns_file, and its lines
    rootExists,     \* template_dir.exists()
    tree,           \* the files below template_dir
    patterns,       \* the local list _load_patterns builds
    hardcoded_patterns, \* self.hardcoded_patterns
    issues,         \* self.issues
    checked_files,  \* self.checked_files
    todo,           \* files (or lines) still to be visited by the running loop
    cpc,            \* position of the checker's main()
    ok,             \* value returned by check_all_files(): "none" until it returns
    exitCode        \* argument of sys.exit(): -1 until main exits

vvars == <<fileState, document, config, errors, warnings, pc, result, passesRun>>
cvars == <<patternsFile, rootExists, tree, patterns, hardcoded_patterns, issues,
           checked_files, todo, cpc, ok, exitCode>>
vars == <<vvars, cvars>>

-----------------------------------------------------------------------------
(* Bounds of the model *)

\* number of fields in which a drawn config document differs from BaseDocument
MaxEdits == 2

-----------------------------------------------------------------------------
(* Python str operations *)

Ch(s, i) == SubSeq(s, i, i)

LowerChar(c) ==
    CASE c = "A" -> "a" [] c = "B" -> "b" [] c = "C" -> "c" [] c = "D" -> "d"
      [] c = "E" -> "e" [] c = "F" -> "f" [] c = "G" -> "g" [] c = "H" -> "h"
      [] c = "I" -> "i" [] c = "J" -> "j" [] c = "K" -> "k" [] c = "L" -> "l"
      [] c = "M" -> "m" [] c = "N" -> "n" [] c = "O" -> "o" [] c = "P" -> "p"
      [] c = "Q" -> "q" [] c = "R" -> "r" [] c = "S" -> "s" [] c = "T" -> "t"
      [] c = "U" -> "u" [] c = "V" -> "v" [] c = "W" -> "w" [] c = "X" -> "x"
      [] c = "Y" -> "y" [] c = "Z" -> "z" [] OTHER -> c

RECURSIVE Lower(_)
Lower(s) == IF s = "" THEN "" ELSE LowerChar(Ch(s, 1)) \o Lower(Tail(s))

\* sub in s
Contains(s, sub) ==
    \E i \in 1..(Len(s) - Len(sub) + 1) : SubSeq(s, i, i + Len(sub) - 1) = sub

\* s.find(sub): 0-based index of the first occurrence, -1 when there is none
Find(s, sub) ==
    IF Contains(s, sub)
    THEN (CHOOSE i \in 1..(Len(s) - Len(sub) + 1) :
             /\ SubSeq(s, i, i + Len(sub) - 1) = sub
             /\ \A j \in 1..(i - 1) : SubSeq(s, j, j + Len(sub) - 1) # sub) - 1
    ELSE -1

StartsWith(s, p) == Len(s) >= Len(p) /\ SubSeq(s, 1, Len(p)) = p

IsSpace(c) == c \in {" ", "\t", "\n", "\r"}

RECURSIVE LStrip(_)
LStrip(s) == IF s # "" /\ IsSpace(Ch(s, 1)) THEN LStrip(Tail(s)) ELSE s

RECURSIVE RStrip(_)
RStrip(s) ==
    IF s # "" /\ IsSpace(Ch(s, Len(s))) THEN RStrip(SubSeq(s, 1, Len(s) - 1)) ELSE s

\* s.strip()
Strip(s) == RStrip(LStrip(s))

\* s.split(sep) for a one-character sep: always at least one part
RECURSIVE SplitFrom(_, _, _)
SplitFrom(s, sep, cur) ==
    IF s = "" THEN <<cur>>
    ELSE IF Ch(s, 1) = sep THEN <<cur>> \o SplitFrom(Tail(s), sep, "")
    ELSE SplitFrom(Tail(s), sep, cur \o Ch(s, 1))

Split(s, sep) == SplitFrom(s, sep, "")

\* xs[:n]
Take(xs, n) == SubSeq(xs, 1, IF Len(xs) < n THEN Len(xs) ELSE n)

IsDigit(c) == c \in {"0", "1", "2", "3", "4", "5", "6", "7", "8", "9"}

DigitVal(c) ==
    CASE c = "0" -> 0 [] c = "1" -> 1 [] c = "2" -> 2 [] c = "3" -> 3
      [] c = "4" -> 4 [] c = "5" -> 5 [] c = "6" -> 6 [] c = "7" -> 7
      [] c = "8" -> 8 [] c = "9" -> 9

\* str(n) for a one-digit n
NatStr(n) == CHOOSE c \in {"0", "1", "2", "3", "4", "5", "6", "7", "8", "9"} : DigitVal(c) = n

AllDigits(s) == s # "" /\ \A i \in 1..Len(s) : IsDigit(Ch(s, i))

RECURSIVE DigitsVal(_, _)
DigitsVal(s, acc) ==
    IF s = "" THEN acc ELSE DigitsVal(Tail(s), acc * 10 + DigitVal(Ch(s, 1)))

\* int(s) on a str: surrounding whitespace and one sign are accepted;
\* anything else that is not a run of decimal digits raises ValueError
IntBody(s) ==
    LET t == Strip(s)
    IN  IF t # "" /\ Ch(t, 1) \in {"+", "-"} THEN Tail(t) ELSE t

IntParses(s) == AllDigits(IntBody(s))

IntOf(s) ==
    LET t == Strip(s)
        v == DigitsVal(IntBody(s), 0)
    IN  IF t # "" /\ Ch(t, 1) = "-" THEN 0 - v ELSE v

-----------------------------------------------------------------------------
(* YAML values and the config document *)

Absent == [t |-> "absent", s |-> ""]      \* key not in the mapping
Null == [t |-> "null", s |-> ""]          \* None
YStr(x) == [t |-> "str", s |-> x]
YInt(x) == [t |-> "int", s |-> x]
YFloat(x) == [t |-> "float", s |-> x]
YBool(x) == [t |-> "bool", s |-> x]        \* "true" / "false"
Map == [t |-> "map", s |-> ""]            \* its entries are the paths below it
List == [t |-> "list", s |-> "nonempty"]

\* type(value).__name__
PyType(v) ==
    CASE v.t = "str" -> "str" [] v.t = "int" -> "int" [] v.t = "float" -> "float"
      [] v.t = "bool" -> "bool" [] v.t = "map" -> "dict" [] v.t = "list" -> "list"
      [] OTHER -> "NoneType"

\* message of the AttributeError raised by value.attr
AttributeError(v, attr) ==
    "'" \o PyType(v) \o "' object has no attribute '" \o attr \o "'"

\* The document is a function from dotted paths to values; "" is the document
\* itself.  The third key of each platform detail mapping stands for any key
\* such a mapping may hold.
TopKeys == {"project", "platforms", "language", "framework", "tools", "python",
            "javascript", "java", "dotnet", "azure_devops", "github", "jira"}

SubPaths == {"project.name", "project.organization", "project.description",
             "platforms.azure_devops", "platforms.github", "platforms.jira",
             "platforms.gitlab",
             "tools.cli", "tools.test_runner", "tools.linter",
             "python.version", "javascript.runtime", "java.version",
             "dotnet.version",
             "azure_devops.organization", "github.repository", "jira.project"}

Paths == {""} \cup TopKeys \cup SubPaths

\* the mapping a path lies in: the path without its last key
ParentMap == [p \in Paths \ {""} |-> IF p \in TopKeys THEN "" ELSE Split(p, ".")[1]]
ParentOf(p) == ParentMap[p]

ChildrenMap == [p \in Paths |-> {q \in Paths \ {""} : ParentOf(q) = p}]
Children(p) == ChildrenMap[p]

\* a well-formed project-config.yaml
BaseDocument ==
    [p \in Paths |->
        CASE p \in {"", "project", "platforms", "tools", "python", "javascript",
                    "java", "dotnet", "azure_devops", "github", "jira"} -> Map
          [] p = "project.name" -> YStr("proto")
          [] p = "project.organization" -> YStr("naz-hage")
          [] p = "project.description" -> YStr("templates")
          [] p = "platforms.github" -> YBool("true")
          [] p = "language" -> YStr("python")
          [] p = "tools.cli" -> YStr("saz")
          [] p = "tools.test_runner" -> YStr("pytest")
          [] p = "python.version" -> YStr("3.11")
          [] p = "javascript.runtime" -> YStr("node")
          [] p = "java.version" -> YStr("17")
          [] p = "dotnet.version" -> YStr("8.0")
          [] p = "azure_devops.organization" -> YStr("org")
          [] p = "github.repository" -> YStr("repo")
          [] p = "jira.project" -> YStr("PRJ")
          [] OTHER -> Absent]

\* the values a drawn document may hold at a path instead of the base value
Alternatives(p) ==
    CASE p = "" -> {List, Null}
      [] p = "project" -> {YStr("proto")}
      [] p = "project.name" -> {YStr(""), YInt("5")}
      [] p = "project.organization" -> {Absent}
      [] p = "project.description" -> {YInt("5")}
      [] p = "platforms" -> {Absent, YStr("all")}
      [] p = "platforms.azure_devops" -> {YBool("true"), YBool("false")}
      [] p = "platforms.github" -> {Absent, YBool("false"), YStr("yes")}
      [] p = "platforms.jira" -> {YBool("true")}
      [] p = "platforms.gitlab" -> {YBool("true")}
      [] p = "language" -> {Absent, YStr("Java"), YStr("javascript"),
                            YStr("dotnet"), YStr("ruby"), YInt("5")}
      [] p = "framework" -> {YStr("Django"), YInt("5")}
      [] p = "tools" -> {Absent, YStr("saz")}
      [] p = "tools.cli" -> {YStr("SAZ"), YStr("make"), YInt("5")}
      [] p = "tools.test_runner" -> {Absent, YStr("PyTest"), YStr("junit"), YInt("5")}
      [] p = "tools.linter" -> {YBool("true")}
      [] p = "python" -> {YStr("3.11")}
      [] p = "python.version" ->
            {YStr(""), YStr("3.8"), YStr("3.7"), YStr("3"), YStr("3.8.1"),
             YStr("3.x"), YFloat("3.8")}
      [] p = "javascript.runtime" -> {YStr("bun"), YStr("deno")}
      [] p = "java" -> {YInt("17")}
      [] p = "java.version" -> {YStr("11.0.2"), YStr("9"), YInt("17"), YFloat("1.8")}
      [] p = "dotnet.version" -> {YStr("6.0.1"), YStr("5.0"), YStr("8"), YInt("8")}
      [] p = "azure_devops" -> {Absent}
      [] p = "github" -> {Absent}
      [] p = "github.repository" -> {Absent}
      [] p = "jira" -> {Absent}
      [] OTHER -> {}

Edits == UNION {{<<p, v>> : v \in Alternatives(p)} : p \in Paths}

RECURSIVE ApplyEdits(_, _)
ApplyEdits(doc, es) ==
    IF es = <<>> THEN doc
    ELSE ApplyEdits([doc EXCEPT ![es[1][1]] = es[1][2]], Tail(es))

\* a value that is not a mapping has no entries
Normalise(doc) ==
    [p \in Paths |->
        IF p = "" THEN doc[p]
        ELSE IF doc[""].t # "map" THEN Absent
        ELSE IF p \in TopKeys THEN doc[p]
        ELSE IF doc[ParentOf(p)].t # "map" THEN Absent
        ELSE doc[p]]

Documents == {Normalise(ApplyEdits(BaseDocument, es)) : es \in [1..MaxEdits -> Edits]}

EmptyConfig == [p \in Paths |-> IF p = "" THEN Map ELSE Absent]

\* bool(value)
Truthy(cfg, p) ==
    LET v == cfg[p]
    IN  CASE v.t = "str" -> v.s # ""
          [] v.t = "int" -> v.s # "0"
          [] v.t = "float" -> v.s # "0.0"
          [] v.t = "bool" -> v.s = "true"
          [] v.t = "map" -> \E q \in Children(p) : cfg[q].t # "absent"
          [] v.t = "list" -> v.s # "empty"
          [] OTHER -> FALSE

-----------------------------------------------------------------------------
(* ConfigValidator: the passes.  A pass yields the lists it leaves behind   *)
(* and the message of the exception it raised ("" when it returned).        *)

Returned(e, w) == [e |-> e, w |-> w, raised |-> ""]
Raised(e, w, msg) == [e |-> e, w |-> w, raised |-> msg]

NoValue == "<None>"

\* _get_nested_value: the path the walk ends at, NoValue for `return None`
RECURSIVE Walk(_, _, _)
Walk(cfg, keys, cur) ==
    IF keys = <<>> THEN cur
    ELSE LET nxt == IF cur = "" THEN keys[1] ELSE cur \o "." \o keys[1]
         IN  IF cfg[cur].t = "map" /\ nxt \in Paths /\ cfg[nxt].t # "absent"
             THEN Walk(cfg, Tail(keys), nxt)
             ELSE NoValue

_get_nested_value(cfg, field_path) == Walk(cfg, Split(field_path, "."), "")

\* `not self._get_nested_value(p)`
NestedFalsy(cfg, field_path) ==
    LET at == _get_nested_value(cfg, field_path)
    IN  at = NoValue \/ ~Truthy(cfg, at)

\* `value is not None`
NestedNotNone(cfg, field_path) ==
    LET at == _get_nested_value(cfg, field_path)
    IN  at # NoValue /\ cfg[at].t # "null"

required_fields == <<"project.name", "project.organization", "platforms", "language">>

string_fields == <<"project.name", "project.organization", "project.description",
                   "language", "framework", "tools.cli", "tools.test_runner",
                   "tools.linter">>

boolean_fields == <<"platforms.azure_devops", "platforms.github", "platforms.jira">>

RECURSIVE RequiredLoop(_, _, _)
RequiredLoop(cfg, fields, e) ==
    IF fields = <<>> THEN e
    ELSE RequiredLoop(cfg, Tail(fields),
            IF NestedFalsy(cfg, fields[1])
            THEN Append(e, "Required field missing: " \o fields[1])
            ELSE e)

_validate_required_fields(cfg, e, w) == Returned(RequiredLoop(cfg, required_fields, e), w)

RECURSIVE TypeLoop(_, _, _, _)
TypeLoop(cfg, fields, want, e) ==
    IF fields = <<>> THEN e
    ELSE LET at == _get_nested_value(cfg, fields[1])
         IN  TypeLoop(cfg, Tail(fields), want,
                IF NestedNotNone(cfg, fields[1]) /\ cfg[at].t # want
                THEN Append(e, "Field " \o fields[1] \o " must be a "
                               \o (IF want = "str" THEN "string" ELSE "boolean")
                               \o ", got <class '" \o PyType(cfg[at]) \o "'>")
                ELSE e)

_validate_data_types(cfg, e, w) ==
    Returned(TypeLoop(cfg, boolean_fields, "bool",
                      TypeLoop(cfg, string_fields, "str", e)), w)

\* the keys of platforms whose value `is True`
EnabledPlatforms(cfg) == {k \in Children("platforms") : cfg[k] = YBool("true")}

DetailWarning(cfg, flag, block, name, w) ==
    IF Truthy(cfg, flag) /\ ~Truthy(cfg, block)
    THEN Append(w, name \o " is enabled but no specific configuration provided")
    ELSE w

_validate_platform_config(cfg, e, w) ==
    IF cfg[""].t # "map" THEN Raised(e, w, AttributeError(cfg[""], "get"))
    ELSE IF cfg["platforms"].t \notin {"absent", "map"}
    THEN Raised(e, w, AttributeError(cfg["platforms"], "items"))
    ELSE LET w0 == IF EnabledPlatforms(cfg) = {}
                   THEN Append(w, "No platforms are enabled. Consider enabling at least one platform.")
                   ELSE w
             w1 == DetailWarning(cfg, "platforms.azure_devops", "azure_devops", "Azure DevOps", w0)
             w2 == DetailWarning(cfg, "platforms.github", "github", "GitHub", w1)
             w3 == DetailWarning(cfg, "platforms.jira", "jira", "Jira", w2)
         IN  Returned(e, w3)

\* major, minor = map(int, version.split('.')[:2]) without ValueError
TwoInts(s) ==
    LET parts == Take(Split(s, "."), 2)
    IN  Len(parts) = 2 /\ IntParses(parts[1]) /\ IntParses(parts[2])

Major(s) == IntOf(Split(s, ".")[1])
Minor(s) == IntOf(Split(s, ".")[2])

\* a value that is not a str has no .split: AttributeError, caught
_is_valid_python_version(v) ==
    v.t = "str" /\ TwoInts(v.s) /\ Major(v.s) = 3 /\ Minor(v.s) >= 8

_is_valid_dotnet_version(v) ==
    /\ v.t = "str"
    /\ TwoInts(v.s)
    /\ \/ (Major(v.s) = 6 /\ Minor(v.s) >= 0)
       \/ (Major(v.s) = 7 /\ Minor(v.s) >= 0)
       \/ (Major(v.s) = 8 /\ Minor(v.s) >= 0)

lts_versions == {"8", "11", "17", "21"}

\* a value that is not a str is in no list of strs and has no .startswith:
\* AttributeError, not caught here
JavaVersionRaises(v) == v.t # "str"

_is_valid_java_version(v) ==
    /\ v.t = "str"
    /\ \/ v.s \in lts_versions
       \/ \E l \in lts_versions : StartsWith(v.s, l \o ".")

\* cfg.get(block, {}).get(key) raises when the block is not a mapping
BlockRaises(cfg, block) == cfg[block].t \notin {"absent", "map"}

_validate_python_config(cfg, e, w) ==
    IF BlockRaises(cfg, "python") THEN Raised(e, w, AttributeError(cfg["python"], "get"))
    ELSE IF Truthy(cfg, "python.version") /\ ~_is_valid_python_version(cfg["python.version"])
    THEN Returned(e, Append(w, "Python version '" \o cfg["python.version"].s
                               \o "' may not be supported"))
    ELSE Returned(e, w)

_validate_javascript_config(cfg, e, w) ==
    IF BlockRaises(cfg, "javascript")
    THEN Raised(e, w, AttributeError(cfg["javascript"], "get"))
    ELSE IF cfg["javascript.runtime"] \notin {YStr("node"), YStr("bun"), Absent, Null}
    THEN Returned(e, Append(w, "JavaScript runtime should be 'node' or 'bun'"))
    ELSE Returned(e, w)

_validate_java_config(cfg, e, w) ==
    IF BlockRaises(cfg, "java") THEN Raised(e, w, AttributeError(cfg["java"], "get"))
    ELSE IF ~Truthy(cfg, "java.version") THEN Returned(e, w)
    ELSE IF JavaVersionRaises(cfg["java.version"])
    THEN Raised(e, w, AttributeError(cfg["java.version"], "startswith"))
    ELSE IF ~_is_valid_java_version(cfg["java.version"])
    THEN Returned(e, Append(w, "Java version '" \o cfg["java.version"].s
                               \o "' may not be LTS"))
    ELSE Returned(e, w)

_validate_dotnet_config(cfg, e, w) ==
    IF BlockRaises(cfg, "dotnet") THEN Raised(e, w, AttributeError(cfg["dotnet"], "get"))
    ELSE IF Truthy(cfg, "dotnet.version") /\ ~_is_valid_dotnet_version(cfg["dotnet.version"])
    THEN Returned(e, Append(w, ".NET version '" \o cfg["dotnet.version"].s
                               \o "' may not be supported"))
    ELSE Returned(e, w)

\* d.get(key, '').lower(): raises unless the value is a str or the key is absent
LowerRaises(cfg, p) == cfg[p].t \notin {"absent", "str"}
LowerOf(cfg, p) == IF cfg[p].t = "str" THEN Lower(cfg[p].s) ELSE ""

supported_languages == {"python", "javascript", "java", "dotnet"}

_validate_language_config(cfg, e, w) ==
    IF cfg[""].t # "map" THEN Raised(e, w, AttributeError(cfg[""], "get"))
    ELSE IF LowerRaises(cfg, "language")
    THEN Raised(e, w, AttributeError(cfg["language"], "lower"))
    ELSE IF LowerRaises(cfg, "framework")
    THEN Raised(e, w, AttributeError(cfg["framework"], "lower"))
    ELSE LET language == LowerOf(cfg, "language")
             w0 == IF language # "" /\ language \notin supported_languages
                   THEN Append(w, "Language '" \o language
                                  \o "' is not in the list of well-supported languages")
                   ELSE w
         IN  CASE language = "python" -> _validate_python_config(cfg, e, w0)
               [] language = "javascript" -> _validate_javascript_config(cfg, e, w0)
               [] language = "java" -> _validate_java_config(cfg, e, w0)
               [] language = "dotnet" -> _validate_dotnet_config(cfg, e, w0)
               [] OTHER -> Returned(e, w0)

\* the test runners accepted for a language
ExpectedRunners(language) ==
    CASE language = "python" -> {"pytest", "unittest", ""}
      [] language = "javascript" -> {"jest", "mocha", "jasmine", ""}
      [] language = "java" -> {"junit", "testng", ""}
      [] language = "dotnet" -> {"xunit", "nunit", "mstest", ""}

RunnerWarning(language) ==
    CASE language = "python" -> "For Python, consider using 'pytest' or 'unittest' as test runner"
      [] language = "javascript" -> "For JavaScript, consider using 'jest', 'mocha', or 'jasmine' as test runner"
      [] language = "java" -> "For Java, consider using 'junit' or 'testng' as test runner"
      [] language = "dotnet" -> "For .NET, consider using 'xunit', 'nunit', or 'mstest' as test runner"

_validate_tool_config(cfg, e, w) ==
    IF cfg[""].t # "map" THEN Raised(e, w, AttributeError(cfg[""], "get"))
    ELSE IF BlockRaises(cfg, "tools") THEN Raised(e, w, AttributeError(cfg["tools"], "get"))
    ELSE IF LowerRaises(cfg, "tools.cli")
    THEN Raised(e, w, AttributeError(cfg["tools.cli"], "lower"))
    ELSE LET w0 == IF LowerOf(cfg, "tools.cli") # "saz"
                   THEN Append(w, "Consider using 'saz' as the primary CLI tool for consistency")
                   ELSE w
         IN  IF LowerRaises(cfg, "language")
             THEN Raised(e, w0, AttributeError(cfg["language"], "lower"))
             ELSE IF LowerRaises(cfg, "tools.test_runner")
             THEN Raised(e, w0, AttributeError(cfg["tools.test_runner"], "lower"))
             ELSE LET language == LowerOf(cfg, "language")
                      test_runner == LowerOf(cfg, "tools.test_runner")
                  IN  IF /\ language \in supported_languages
                         /\ test_runner \notin ExpectedRunners(language)
                      THEN Returned(e, Append(w0, RunnerWarning(language)))
                      ELSE Returned(e, w0)

_validate_consistency(cfg, e, w) ==
    IF cfg[""].t # "map" THEN Raised(e, w, AttributeError(cfg[""], "get"))
    ELSE IF cfg["platforms"].t \notin {"absent", "map"}
    THEN Raised(e, w, AttributeError(cfg["platforms"], "values"))
    ELSE IF Cardinality(EnabledPlatforms(cfg)) > 1
    THEN Returned(e, Append(w, "Multiple platforms enabled ("
                               \o NatStr(Cardinality(EnabledPlatforms(cfg)))
                               \o "). Ensure SAZ is configured correctly for all platforms."))
    ELSE Returned(e, w)

\* _load_config going on with an empty config when the file is missing
LoadRaises_MissingFileTolerated(fs) ==
    CASE fs = "unreadable" -> "[Errno 13] Permission denied: 'project-config.yaml'"
      [] fs = "badyaml" -> "Invalid YAML syntax: mapping values are not allowed here"
      [] OTHER -> ""

\* _load_config: the config it stores and the exception it raises
LoadRaises(fs) ==
    CASE fs = "missing" -> "Configuration file not found: project-config.yaml"
      [] fs = "unreadable" -> "[Errno 13] Permission denied: 'project-config.yaml'"
      [] fs = "badyaml" -> "Invalid YAML syntax: mapping values are not allowed here"
      [] OTHER -> ""

\* yaml.safe_load(f) or {}
LoadedConfig(doc) == IF doc[""].t = "map" \/ Truthy(doc, "") THEN doc ELSE EmptyConfig

-----------------------------------------------------------------------------
(* ConfigValidator.validate, one step per call it makes *)

\* validate() returning success whatever the errors list holds
ValidateReturn_IgnoresErrors(e) == "True"

\* `return len(self.errors) == 0`
ValidateReturn(e) == IF Len(e) = 0 THEN "True" ELSE "False"

\* `except Exception as e:` of validate
ExceptHandler(e, msg) == Append(e, "Failed to validate config: " \o msg)

\* what a pass leaves behind in validate(): on an exception the handler runs
\* and validate returns False; after the last pass validate returns
Finish(r, nextpc) ==
    IF r.raised # ""
    THEN /\ errors' = ExceptHandler(r.e, r.raised)
         /\ warnings' = r.w
         /\ result' = "False"
         /\ pc' = "done"
    ELSE /\ errors' = r.e
         /\ warnings' = r.w
         /\ result' = IF nextpc = "done" THEN ValidateReturn(r.e) ELSE result
         /\ pc' = nextpc

LoadConfig ==
    /\ pc = "load"
    /\ config' = IF LoadRaises(fileState) = "" THEN LoadedConfig(document) ELSE config
    /\ Finish(Raised(errors, warnings, LoadRaises(fileState)), "required")
    /\ UNCHANGED <<fileState, document, passesRun, cvars>>

\* validate() enters a pass and takes what the pass leaves behind
Enter(name, r, nextpc) ==
    /\ passesRun' = Append(passesRun, name)
    /\ Finish(r, nextpc)
    /\ UNCHANGED <<fileState, document, config, cvars>>

RequiredFieldsPass ==
    /\ pc = "required"
    /\ Enter("required", _validate_required_fields(config, errors, warnings), "types")

DataTypesPass ==
    /\ pc = "types"
    /\ Enter("types", _validate_data_types(config, errors, warnings), "platform")

PlatformPass ==
    /\ pc = "platform"
    /\ Enter("platform", _validate_platform_config(config, errors, warnings), "language")

LanguagePass ==
    /\ pc = "language"
    /\ Enter("language", _validate_language_config(config, errors, warnings), "tools")

ToolPass ==
    /\ pc = "tools"
    /\ Enter("tools", _validate_tool_config(config, errors, warnings), "consistency")

ConsistencyPass ==
    /\ pc = "consistency"
    /\ Enter("consistency", _validate_consistency(config, errors, warnings), "done")

AllPasses == <<"required", "types", "platform", "language", "tools", "consistency">>

CheckerIdle ==
    /\ patternsFile = [state |-> "missing", lines |-> <<>>, failAt |-> 0]
    /\ rootExists = FALSE
    /\ tree = <<>>
    /\ patterns = <<>>
    /\ hardcoded_patterns = <<>>
    /\ issues = <<>>
    /\ checked_files = 0
    /\ todo = <<>>
    /\ cpc = "idle"
    /\ ok = "none"
    /\ exitCode = -1

\* a fresh ConfigValidator on any file
InitValidate ==
    /\ fileState \in {"ok", "missing", "unreadable", "badyaml"}
    /\ document \in (IF fileState = "ok" THEN Documents ELSE {BaseDocument})
    /\ config = EmptyConfig
    /\ errors = <<>>
    /\ warnings = <<>>
    /\ pc = "load"
    /\ result = "none"
    /\ passesRun = <<>>
    /\ CheckerIdle

NextValidate ==
    \/ LoadConfig
    \/ RequiredFieldsPass
    \/ DataTypesPass
    \/ PlatformPass
    \/ LanguagePass
    \/ ToolPass
    \/ ConsistencyPass

SpecValidate == InitValidate /\ [][NextValidate]_vars

-----------------------------------------------------------------------------
(* Claims about ConfigValidator, checked under SpecValidate *)

Loaded == LoadRaises(fileState) = ""

\* C1: whenever _load_config succeeds, validate() has entered all six passes,
\* in the fixed order, by the time it returns, whatever the document holds.
C1_AllPassesRun == (pc = "done" /\ Loaded) => passesRun = AllPasses

\* C2: when validate() has returned, it returned True exactly when the errors
\* list is empty; the warnings list has no part in it.
C2_ResultIffNoErrors ==
    pc = "done" => /\ result \in {"True", "False"}
                   /\ (result = "True") <=> (errors = <<>>)

\* validate() returned True on a run that left warnings behind
C2_Witness == pc = "done" /\ result = "True" /\ warnings # <<>>

\* C3: a missing file or a YAML syntax error aborts validate(): no pass runs,
\* errors holds exactly one entry, warnings is empty, validate returns False.
C3_LoadFailureAborts ==
    (pc = "done" /\ fileState \in {"missing", "badyaml"}) =>
        /\ passesRun = <<>>
        /\ Len(errors) = 1
        /\ warnings = <<>>
        /\ result = "False"

\* validate() returned after failing to load the file
C3_Witness == pc = "done" /\ fileState \in {"missing", "badyaml"} /\ Len(errors) = 1

\* the language pass is about to check <language>.version, which is set
VersionChecked(cfg, language) ==
    /\ cfg[""].t = "map"
    /\ ~LowerRaises(cfg, "language") /\ ~LowerRaises(cfg, "framework")
    /\ LowerOf(cfg, "language") = language
    /\ cfg[language].t = "map"
    /\ Truthy(cfg, language \o ".version")

\* the version does not parse as a supported one (spec 4.3, language checks)
Unsupported(language, v) ==
    CASE language = "python" -> ~_is_valid_python_version(v)
      [] language = "java" -> ~_is_valid_java_version(v)
      [] language = "dotnet" -> ~_is_valid_dotnet_version(v)

\* C4: in the language pass, a set python/java/dotnet version that cannot be
\* parsed as a supported version appends exactly one warning and no error.
C4_UnsupportedVersionWarnsOnly ==
    [][(/\ pc = "language"
        /\ \E l \in {"python", "java", "dotnet"} :
              /\ VersionChecked(config, l)
              /\ Unsupported(l, config[l \o ".version"]))
       => (Len(warnings') = Len(warnings) + 1 /\ errors' = errors)]_vars

\* the name each platform carries in its warning
PlatformTitle(P) ==
    CASE P = "azure_devops" -> "Azure DevOps"
      [] P = "github" -> "GitHub"
      [] P = "jira" -> "Jira"

NoDetailWarning(P) ==
    PlatformTitle(P) \o " is enabled but no specific configuration provided"

NoPlatformsWarning ==
    "No platforms are enabled. Consider enabling at least one platform."

\* the platform pass is about to run on a document it can walk: the root is
\* a mapping and platforms is a mapping or is not there
PlatformPassWalks ==
    /\ pc = "platform"
    /\ config[""].t = "map"
    /\ config["platforms"].t \in {"absent", "map"}

\* the top-level detail block of P is absent or holds nothing
DetailMissing(P) ==
    \/ config[P].t \in {"absent", "null"}
    \/ config[P].t = "map" /\ Children(P) \cap {q \in Paths : config[q].t # "absent"} = {}

\* C11: in the platform pass, for each of azure_devops, github and jira the
\* "is enabled but no specific configuration provided" warning is appended
\* exactly when platforms.P is the boolean true and the detail block P is
\* absent or empty; "No platforms are enabled" is appended exactly when no
\* flag under platforms is true, so it never comes with a warning of the
\* first kind; and the pass leaves the errors list alone.
C11_PlatformWarnings ==
    [][PlatformPassWalks =>
        LET appended == {warnings'[i] : i \in (Len(warnings) + 1)..Len(warnings')}
        IN  /\ \A P \in {"azure_devops", "github", "jira"} :
                  (NoDetailWarning(P) \in appended)
                      <=> (config["platforms." \o P] = YBool("true") /\ DetailMissing(P))
            /\ (NoPlatformsWarning \in appended)
                  <=> (\A k \in Children("platforms") : config[k] # YBool("true"))
            /\ ~(/\ NoPlatformsWarning \in appended
                 /\ \E P \in {"azure_devops", "github", "jira"} :
                        NoDetailWarning(P) \in appended)
            /\ errors' = errors]_vars

-----------------------------------------------------------------------------
(* HardcodedValuesChecker._load_patterns *)

\* number of lines of a drawn patterns file
MaxPatternLines == 2

EndsWith(s, p) == Len(s) >= Len(p) /\ SubSeq(s, Len(s) - Len(p) + 1, Len(s)) = p

\* the two built-in rules (pattern, description, severity)
DefaultPatterns ==
    << <<"\\b(?:Proto|proto)\\b", "project name", "warning">>,
       <<"\\b(?:nazh|naz-hage)\\b", "organization/user name", "warning">> >>

\* the except branches keeping what was parsed before the failure
FallbackPatterns_KeepsParsed(parsed) == parsed \o DefaultPatterns

\* `patterns = [...]` of both except branches
FallbackPatterns(parsed) == DefaultPatterns

\* the body of `for line in f`
ParsePatternLine(parsed, raw) ==
    LET line == Strip(raw)
        parts == Split(line, "|")
    IN  IF line = "" \/ StartsWith(line, "#") THEN parsed
        ELSE IF Len(parts) = 3
        THEN Append(parsed, <<Strip(parts[1]), Strip(parts[2]), Strip(parts[3])>>)
        ELSE parsed

\* open(self.patterns_file): FileNotFoundError when it is missing, another
\* exception (PermissionError, IsADirectoryError) when it cannot be opened
OpenPatterns ==
    /\ cpc = "open"
    /\ IF patternsFile.state # "ok"
       THEN /\ patterns' = FallbackPatterns(patterns)
            /\ todo' = <<>>
            /\ cpc' = "return"
       ELSE /\ patterns' = patterns
            /\ todo' = patternsFile.lines
            /\ cpc' = IF patternsFile.lines = <<>> THEN "return" ELSE "read"
    /\ UNCHANGED <<patternsFile, rootExists, tree, hardcoded_patterns, issues,
                   checked_files, ok, exitCode, vvars>>

\* one turn of `for line in f`; reading line failAt raises (UnicodeDecodeError,
\* OSError), which the `except Exception` branch takes
ReadPatternLine ==
    /\ cpc = "read"
    /\ todo # <<>>
    /\ IF patternsFile.failAt = Len(patternsFile.lines) - Len(todo) + 1
       THEN /\ patterns' = FallbackPatterns(patterns)
            /\ todo' = <<>>
            /\ cpc' = "return"
       ELSE /\ patterns' = ParsePatternLine(patterns, Head(todo))
            /\ todo' = Tail(todo)
            /\ cpc' = IF Tail(todo) = <<>> THEN "return" ELSE "read"
    /\ UNCHANGED <<patternsFile, rootExists, tree, hardcoded_patterns, issues,
                   checked_files, ok, exitCode, vvars>>

\* `return patterns`, stored by __init__ in self.hardcoded_patterns
ReturnPatterns ==
    /\ cpc = "return"
    /\ hardcoded_patterns' = patterns
    /\ cpc' = "check"
    /\ UNCHANGED <<patternsFile, rootExists, tree, patterns, issues,
                   checked_files, todo, ok, exitCode, vvars>>

\* the lines a drawn patterns file is made of
PatternLines ==
    {"MyOrg|organization/user name|error\n",
     "  proto | project name | info  \n",
     "# pattern|description|severity\n",
     "   # indented|comment|line\n",
     "\n",
     "   \n",
     "MyOrg|organization\n",
     "Proto|proto|project name|warning\n",
     "naz-hage|organization/user name|warning"}

RECURSIVE SeqsUpTo(_, _)
SeqsUpTo(S, n) ==
    IF n = 0 THEN {<<>>}
    ELSE LET shorter == SeqsUpTo(S, n - 1)
         IN  shorter \cup {Append(q, x) : q \in shorter, x \in S}

PatternFiles ==
    {[state |-> st, lines |-> ls, failAt |-> k] :
        st \in {"ok"}, ls \in SeqsUpTo(PatternLines, MaxPatternLines),
        k \in 0..MaxPatternLines} \cup
    {[state |-> st, lines |-> <<>>, failAt |-> 0] : st \in {"missing", "unreadable"}}

ValidatorIdle ==
    /\ fileState = "missing"
    /\ document = BaseDocument
    /\ config = EmptyConfig
    /\ errors = <<>>
    /\ warnings = <<>>
    /\ pc = "idle"
    /\ result = "none"
    /\ passesRun = <<>>

\* a fresh HardcodedValuesChecker about to load any patterns file
InitLoadPatterns ==
    /\ patternsFile \in PatternFiles
    /\ patternsFile.failAt <= Len(patternsFile.lines)
    /\ rootExists = FALSE
    /\ tree = <<>>
    /\ patterns = <<>>
    /\ hardcoded_patterns = <<>>
    /\ issues = <<>>
    /\ checked_files = 0
    /\ todo = <<>>
    /\ cpc = "open"
    /\ ok = "none"
    /\ exitCode = -1
    /\ ValidatorIdle

NextLoadPatterns ==
    \/ OpenPatterns
    \/ ReadPatternLine
    \/ ReturnPatterns

SpecLoadPatterns == InitLoadPatterns /\ [][NextLoadPatterns]_vars

-----------------------------------------------------------------------------
(* Claim about _load_patterns, checked under SpecLoadPatterns *)

\* number of `|` in s
RECURSIVE CountBars(_)
CountBars(s) ==
    IF s = "" THEN 0 ELSE (IF Ch(s, 1) = "|" THEN 1 ELSE 0) + CountBars(Tail(s))

\* a non-blank line that is no comment and has exactly three `|`-separated parts
IsRuleLine(raw) ==
    /\ Strip(raw) # ""
    /\ Ch(Strip(raw), 1) # "#"
    /\ CountBars(raw) = 2

FileFails == patternsFile.state # "ok" \/ patternsFile.failAt # 0

\* C10: an absent or unreadable patterns file (a failure after some lines were
\* parsed included) yields exactly the 2 built-in rules, both of severity
\* warning, and nothing parsed from the file; a readable file yields one rule
\* per rule line, in file order, every other line being skipped.
C10_LoadPatterns ==
    cpc = "check" =>
        IF FileFails
        THEN /\ Len(hardcoded_patterns) = 2
             /\ hardcoded_patterns[1][2] = "project name"
             /\ hardcoded_patterns[2][2] = "organization/user name"
             /\ \A k \in 1..2 : hardcoded_patterns[k][3] = "warning"
        ELSE LET ruleLines == SelectSeq(patternsFile.lines, IsRuleLine)
             IN  /\ Len(hardcoded_patterns) = Len(ruleLines)
                 /\ \A k \in 1..Len(ruleLines) :
                       /\ StartsWith(Strip(ruleLines[k]), hardcoded_patterns[k][1])
                       /\ Contains(ruleLines[k], hardcoded_patterns[k][2])
                       /\ EndsWith(Strip(ruleLines[k]), hardcoded_patterns[k][3])

\* the read failed after a rule had been parsed from the file
C10_Witness ==
    /\ cpc = "check"
    /\ patternsFile.state = "ok"
    /\ patternsFile.failAt = 2
    /\ IsRuleLine(patternsFile.lines[1])
    /\ hardcoded_patterns = DefaultPatterns

-----------------------------------------------------------------------------
(* re.finditer(pattern, line, re.IGNORECASE) for the patterns of the model: *)
(* a literal text, or \b(?:a|b)\b, an alternation of literals between word  *)
(* boundaries, the shape of the built-in rules.                             *)

\* the compiled pattern: its alternatives in order, and whether \b encloses them
Regex(pattern) ==
    IF StartsWith(pattern, "\\b(?:") /\ EndsWith(pattern, ")\\b")
    THEN [wb |-> TRUE, alts |-> Split(SubSeq(pattern, 6, Len(pattern) - 3), "|")]
    ELSE [wb |-> FALSE, alts |-> <<pattern>>]

\* \w
IsWordChar(c) ==
    \/ LowerChar(c) \in {"a", "b", "c", "d", "e", "f", "g", "h", "i", "j", "k", "l", "m",
                         "n", "o", "p", "q", "r", "s", "t", "u", "v", "w", "x", "y", "z"}
    \/ IsDigit(c)
    \/ c = "_"

\* \b between the characters k and k+1 of line (k in 0..Len(line))
WordBoundary(line, k) ==
    LET before == k >= 1 /\ IsWordChar(Ch(line, k))
        after == k + 1 <= Len(line) /\ IsWordChar(Ch(line, k + 1))
    IN  before # after

\* the alternative matches at position i (1-based), case-insensitively
AltMatchesAt(rx, line, i, a) ==
    /\ i + Len(a) - 1 <= Len(line)
    /\ Lower(SubSeq(line, i, i + Len(a) - 1)) = Lower(a)
    /\ rx.wb => (WordBoundary(line, i - 1) /\ WordBoundary(line, i + Len(a) - 1))

\* length of the match starting at i: the first alternative that matches; 0 for none
MatchLenAt(rx, line, i) ==
    IF \E n \in 1..Len(rx.alts) : AltMatchesAt(rx, line, i, rx.alts[n])
    THEN Len(rx.alts[CHOOSE n \in 1..Len(rx.alts) :
                        /\ AltMatchesAt(rx, line, i, rx.alts[n])
                        /\ \A m \in 1..(n - 1) : ~AltMatchesAt(rx, line, i, rx.alts[m])])
    ELSE 0

\* the matches from position i on, left to right, non-overlapping
RECURSIVE FindIterFrom(_, _, _)
FindIterFrom(rx, line, i) ==
    IF i > Len(line) THEN <<>>
    ELSE LET n == MatchLenAt(rx, line, i)
         IN  IF n > 0
             THEN <<[start |-> i - 1, group |-> SubSeq(line, i, i + n - 1)]>>
                  \o FindIterFrom(rx, line, i + n)
             ELSE FindIterFrom(rx, line, i + 1)

FindIter(pattern, line) == FindIterFrom(Regex(pattern), line, 1)

-----------------------------------------------------------------------------
(* HardcodedValuesChecker: _check_line, _check_file *)

\* the placeholder list without [ORG_NAME]
placeholders_WithoutOrgName == {"[PROJECT_NAME]", "[TOOL_COMMAND]"}

placeholders == {"[PROJECT_NAME]", "[ORG_NAME]", "[TOOL_COMMAND]"}

\* the indicator list without 'test'
example_indicators_WithoutTest ==
    {"example", "e.g.", "for instance", "such as", "like", "sample", "demo",
     "placeholder", "your-", "my-", "company-", "org-"}

example_indicators ==
    {"example", "e.g.", "for instance", "such as", "like", "sample", "demo", "test",
     "placeholder", "your-", "my-", "company-", "org-"}

_is_in_example_context(line, match_pos) ==
    LET line_lower == Lower(line)
    IN  IF \E indicator \in example_indicators : Contains(line_lower, indicator)
        THEN TRUE
        ELSE IF /\ Contains(line, "#")
                /\ \E indicator \in example_indicators :
                      Contains(SubSeq(line_lower, Find(line, "#") + 1, Len(line_lower)),
                               indicator)
        THEN TRUE
        ELSE FALSE

\* a finding of _check_file has no 'context' key
NoContext == "<no context>"

Finding(file_path, line_num, issue, severity, context) ==
    [file |-> file_path, line |-> NatStr(line_num), issue |-> issue,
     severity |-> severity, context |-> context]

\* `for match in matches`
RECURSIVE MatchLoop(_, _, _, _, _, _)
MatchLoop(file_path, line_num, line, rule, matches, iss) ==
    IF matches = <<>> THEN iss
    ELSE MatchLoop(file_path, line_num, line, rule, Tail(matches),
            IF _is_in_example_context(line, matches[1].start) THEN iss
            ELSE Append(iss, Finding(file_path, line_num,
                                     "Potential hardcoded " \o rule[2] \o ": \""
                                         \o matches[1].group \o "\"",
                                     rule[3], Strip(line))))

\* `for pattern, description, severity in self.hardcoded_patterns`
RECURSIVE PatternLoop(_, _, _, _, _)
PatternLoop(file_path, line_num, line, rules, iss) ==
    IF rules = <<>> THEN iss
    ELSE PatternLoop(file_path, line_num, line, Tail(rules),
            MatchLoop(file_path, line_num, line, rules[1],
                      FindIter(rules[1][1], line), iss))

\* the issues list _check_line leaves behind
_check_line(file_path, line_num, line, rules, iss) ==
    IF \E placeholder \in placeholders : Contains(line, placeholder) THEN iss
    ELSE PatternLoop(file_path, line_num, line, rules, iss)

\* `for line_num, line in enumerate(lines, 1)`
RECURSIVE LineLoop(_, _, _, _, _)
LineLoop(file_path, line_num, lines, rules, iss) ==
    IF lines = <<>> THEN iss
    ELSE LineLoop(file_path, line_num + 1, Tail(lines), rules,
                  _check_line(file_path, line_num, lines[1], rules, iss))

\* the issues list _check_file leaves behind; a file that cannot be read as
\* UTF-8 text (or is a directory) yields one error finding
_check_file(f, rules, iss) ==
    IF ~f.readable
    THEN Append(iss, Finding(f.path, 1, "Could not read file: " \o f.failure,
                             "error", NoContext))
    ELSE LineLoop(f.path, 1, Split(f.content, "\n"), rules, iss)

-----------------------------------------------------------------------------
(* _check_line on one line of a readable file *)

\* number of pieces a drawn line is made of
MaxAtoms == 2

\* the pieces of a drawn line
Atoms == {"Contact ", "MyOrg", " for details", "[ORG_NAME]", "# e.g. ", "latest ",
          "proto", "col", "naz-hage", "-team", "o"}

RECURSIVE Concats(_, _)
Concats(S, n) ==
    IF n = 0 THEN {""}
    ELSE LET shorter == Concats(S, n - 1)
         IN  shorter \cup {q \o x : q \in shorter, x \in S}

Lines == Concats(Atoms, MaxAtoms)

RuleSets ==
    {DefaultPatterns,
     << <<"MyOrg", "organization/user name", "error">> >>,
     << <<"proto", "project name", "info">>, <<"MyOrg", "organization/user name", "error">> >>,
     << <<"oo", "double o", "warning">> >>}

TextFile(path, content) ==
    [path |-> path, readable |-> TRUE, content |-> content, failure |-> ""]

PriorFinding == Finding("other.md", 1, "Potential hardcoded project name: \"Proto\"",
                        "warning", "Proto")

\* _check_file has read a one-line file and is about to check the line
InitCheckLine ==
    /\ patternsFile = [state |-> "missing", lines |-> <<>>, failAt |-> 0]
    /\ rootExists = TRUE
    /\ \E l \in Lines : tree = <<TextFile("template.md", l)>>
    /\ patterns = <<>>
    /\ hardcoded_patterns \in RuleSets
    /\ issues \in {<<>>, <<PriorFinding>>}
    /\ checked_files = 0
    /\ todo = Split(tree[1].content, "\n")
    /\ cpc = "line"
    /\ ok = "none"
    /\ exitCode = -1
    /\ ValidatorIdle

\* one turn of the loop of _check_file
CheckLine ==
    /\ cpc = "line"
    /\ todo # <<>>
    /\ issues' = _check_line(tree[1].path,
                             Len(Split(tree[1].content, "\n")) - Len(todo) + 1,
                             Head(todo), hardcoded_patterns, issues)
    /\ todo' = Tail(todo)
    /\ cpc' = IF Tail(todo) = <<>> THEN "scanned" ELSE "line"
    /\ UNCHANGED <<patternsFile, rootExists, tree, patterns, hardcoded_patterns,
                   checked_files, ok, exitCode, vvars>>

NextCheckLine == CheckLine

SpecCheckLine == InitCheckLine /\ [][NextCheckLine]_vars

-----------------------------------------------------------------------------
(* Claims about _check_line, checked under SpecCheckLine *)

HasPlaceholderToken(l) ==
    \/ Contains(l, "[PROJECT_NAME]")
    \/ Contains(l, "[ORG_NAME]")
    \/ Contains(l, "[TOOL_COMMAND]")

Markers == {"example", "e.g.", "for instance", "such as", "like", "sample", "demo",
            "test", "placeholder", "your-", "my-", "company-", "org-"}

HasMarker(l) == \E m \in Markers : Contains(Lower(l), m)

\* some loaded rule matches the line
SomeRuleMatches(l) ==
    \E k \in 1..Len(hardcoded_patterns) : FindIter(hardcoded_patterns[k][1], l) # <<>>

\* the severities of one finding per match, rule by rule
RECURSIVE SeveritiesOfMatches(_, _)
SeveritiesOfMatches(rules, l) ==
    IF rules = <<>> THEN <<>>
    ELSE [k \in 1..Len(FindIter(rules[1][1], l)) |-> rules[1][3]]
         \o SeveritiesOfMatches(Tail(rules), l)

\* C7: _check_line leaves the issues list unchanged on a line that contains
\* [PROJECT_NAME], [ORG_NAME] or [TOOL_COMMAND], whatever rules match it.
C7_PlaceholderLineSkipped ==
    [][(cpc = "line" /\ HasPlaceholderToken(Head(todo))) => issues' = issues]_vars

\* a line with a placeholder token that a rule matches has been checked
C7_Witness ==
    /\ cpc = "scanned"
    /\ HasPlaceholderToken(tree[1].content)
    /\ SomeRuleMatches(tree[1].content)
    /\ issues = <<PriorFinding>>

\* C8: on a line whose lower-cased text contains an example marker no match of
\* any rule yields a finding; on a line with no marker and no placeholder token
\* every match of every rule yields exactly one finding of the rule's severity.
C8_ExampleContext ==
    [][cpc = "line" =>
        LET l == Head(todo)
            added == SubSeq(issues', Len(issues) + 1, Len(issues'))
            expected == SeveritiesOfMatches(hardcoded_patterns, l)
        IN  /\ HasMarker(l) => issues' = issues
            /\ (~HasMarker(l) /\ ~HasPlaceholderToken(l)) =>
                  /\ SubSeq(issues', 1, Len(issues)) = issues
                  /\ Len(added) = Len(expected)
                  /\ \A k \in 1..Len(added) : added[k].severity = expected[k]]_vars

\* a line with a marker and no placeholder token, matched by a rule, has been
\* checked and left no finding
C8_Witness ==
    /\ cpc = "scanned"
    /\ HasMarker(tree[1].content)
    /\ ~HasPlaceholderToken(tree[1].content)
    /\ SomeRuleMatches(tree[1].content)
    /\ issues = <<>>

-----------------------------------------------------------------------------
(* check_all_files and main of check_hardcoded_values.py *)

\* number of entries below a drawn template directory
MaxFiles == 2

\* the last component of a path
Name(path) == LET parts == Split(path, "/") IN parts[Len(parts)]

\* Path.glob("**/*.{md,yaml,yml}"): pathlib expands no braces, so the name has
\* to end with the literal text .{md,yaml,yml}; ** takes any depth
GlobMatches(path) == EndsWith(Name(path), ".{md,yaml,yml}")

Glob(entries) == SelectSeq(entries, LAMBDA f : GlobMatches(f.path))

\* check_all_files succeeding whenever no finding is an error
CheckAllFilesReturn_ErrorsOnly(iss) ==
    IF \A i \in 1..Len(iss) : iss[i].severity # "error" THEN "True" ELSE "False"

\* `return len(self.issues) == 0`
CheckAllFilesReturn(iss) == IF Len(iss) = 0 THEN "True" ELSE "False"

\* main failing whenever check_all_files returned False
ExitCode_FailsOnAnyFinding(returned, iss) == IF returned = "True" THEN 0 ELSE 1

\* the argument of sys.exit in main
ExitCode(returned, iss) ==
    IF returned = "True" THEN 0
    ELSE IF Cardinality({i \in 1..Len(iss) : iss[i].severity = "error"}) > 0 THEN 1
    ELSE 0

\* check_all_files up to the loop over the files
CheckAllFiles ==
    /\ cpc = "check"
    /\ IF ~rootExists
       THEN /\ ok' = "False"
            /\ todo' = <<>>
            /\ cpc' = "exit"
       ELSE /\ ok' = ok
            /\ todo' = Glob(tree)
            /\ cpc' = "files"
    /\ UNCHANGED <<patternsFile, rootExists, tree, patterns, hardcoded_patterns,
                   issues, checked_files, exitCode, vvars>>

\* `self._check_file(file_path)` for the next file
CheckFile ==
    /\ cpc = "files"
    /\ todo # <<>>
    /\ issues' = _check_file(Head(todo), hardcoded_patterns, issues)
    /\ todo' = Tail(todo)
    /\ UNCHANGED <<patternsFile, rootExists, tree, patterns, hardcoded_patterns,
                   checked_files, cpc, ok, exitCode, vvars>>

\* the end of check_all_files
ReturnCheckAllFiles ==
    /\ cpc = "files"
    /\ todo = <<>>
    /\ checked_files' = Len(Glob(tree))
    /\ ok' = CheckAllFilesReturn(issues)
    /\ cpc' = "exit"
    /\ UNCHANGED <<patternsFile, rootExists, tree, patterns, hardcoded_patterns,
                   issues, todo, exitCode, vvars>>

\* main after check_all_files returned
MainExit ==
    /\ cpc = "exit"
    /\ exitCode' = ExitCode(ok, issues)
    /\ cpc' = "done"
    /\ UNCHANGED <<patternsFile, rootExists, tree, patterns, hardcoded_patterns,
                   issues, checked_files, todo, ok, vvars>>

\* the entries a drawn template directory is made of
TreeEntries ==
    {TextFile("README.md", "Contact MyOrg for details"),
     TextFile("docs/config.yaml", "owner: MyOrg\n"),
     TextFile("ci.yml", "name: proto"),
     TextFile("notes.txt", "Contact MyOrg for details"),
     TextFile("docs/a.{md,yaml,yml}",
              "Contact MyOrg for details\n# e.g. MyOrg is a sample org"),
     TextFile("c.{md,yaml,yml}", "use [ORG_NAME] not MyOrg\nproto by nazh"),
     TextFile("d.{md,yaml,yml}", "nothing here\n"),
     [path |-> "b.{md,yaml,yml}", readable |-> FALSE, content |-> "",
      failure |-> "[Errno 21] Is a directory: 'b.{md,yaml,yml}'"]}

RECURSIVE TreesUpTo(_)
TreesUpTo(n) ==
    IF n = 0 THEN {<<>>}
    ELSE LET smaller == TreesUpTo(n - 1)
         IN  smaller \cup
             UNION {{Append(q, f) :
                        f \in {g \in TreeEntries : \A i \in 1..Len(q) : q[i] # g}} :
                    q \in smaller}

CheckerPatternFiles ==
    {[state |-> "missing", lines |-> <<>>, failAt |-> 0],
     [state |-> "ok", lines |-> <<"MyOrg|organization/user name|error\n">>, failAt |-> 0],
     [state |-> "ok", failAt |-> 0,
      lines |-> <<"# pattern|description|severity\n",
                  "MyOrg|organization/user name|warning\n">>],
     [state |-> "ok", failAt |-> 0,
      lines |-> <<"  proto | project name | info  \n",
                  "MyOrg|organization/user name|error\n">>],
     [state |-> "ok", lines |-> <<"MyOrg|organization/user name|error\n">>, failAt |-> 1]}

\* main of check_hardcoded_values.py on any template directory
InitChecker ==
    /\ patternsFile \in CheckerPatternFiles
    /\ rootExists \in BOOLEAN
    /\ tree \in (IF rootExists THEN TreesUpTo(MaxFiles) ELSE {<<>>})
    /\ patterns = <<>>
    /\ hardcoded_patterns = <<>>
    /\ issues = <<>>
    /\ checked_files = 0
    /\ todo = <<>>
    /\ cpc = "open"
    /\ ok = "none"
    /\ exitCode = -1
    /\ ValidatorIdle

NextChecker ==
    \/ OpenPatterns
    \/ ReadPatternLine
    \/ ReturnPatterns
    \/ CheckAllFiles
    \/ CheckFile
    \/ ReturnCheckAllFiles
    \/ MainExit

SpecChecker == InitChecker /\ [][NextChecker]_vars

-----------------------------------------------------------------------------
(* Claims about check_all_files and main, checked under SpecChecker *)

HasTemplateExtension(path) ==
    EndsWith(path, ".md") \/ EndsWith(path, ".yaml") \/ EndsWith(path, ".yml")

ErrorFindings == {i \in 1..Len(issues) : issues[i].severity = "error"}

\* C5: with the single rule MyOrg|organization/user name|error and a template
\* directory holding one .md/.yaml/.yml file with the line `Contact MyOrg for
\* details`, the run records exactly one finding, of severity error, naming
\* "MyOrg", and main exits with code 1.
C5_MyOrgScenario ==
    (/\ cpc = "done"
     /\ patternsFile = [state |-> "ok", failAt |-> 0,
                        lines |-> <<"MyOrg|organization/user name|error\n">>]
     /\ rootExists
     /\ Len(tree) = 1
     /\ HasTemplateExtension(tree[1].path)
     /\ tree[1].readable
     /\ tree[1].content = "Contact MyOrg for details")
    => /\ Len(issues) = 1
       /\ issues[1].severity = "error"
       /\ Contains(issues[1].issue, "MyOrg")
       /\ exitCode = 1

CheckAllFilesReturned == cpc \in {"exit", "done"}

\* C6 as stated: for every root directory, existing or not, check_all_files
\* returns True exactly when no finding was recorded.
C6_TrueIffNoFindings ==
    CheckAllFilesReturned => ((ok = "True") <=> (issues = <<>>))

\* C6 as amended: for an existing root directory check_all_files returns True
\* exactly when no finding was recorded; for a missing one it returns False
\* and records no finding.
C6_TrueIffNoFindingsWhenRootExists ==
    CheckAllFilesReturned =>
        IF rootExists THEN (ok = "True") <=> (issues = <<>>)
        ELSE ok = "False" /\ issues = <<>>

\* check_all_files returned False for an existing directory with findings
C6_Witness == CheckAllFilesReturned /\ rootExists /\ ok = "False" /\ issues # <<>>

\* C9: main exits with code 1 exactly when the issues list holds a finding of
\* severity error, and with code 0 otherwise.
C9_ExitCode ==
    cpc = "done" => /\ exitCode \in {0, 1}
                    /\ (exitCode = 1) <=> (ErrorFindings # {})

\* main exited with code 0 although findings, none an error, were recorded
C9_Witness == cpc = "done" /\ exitCode = 0 /\ issues # <<>> /\ ErrorFindings = {}

====
